---- MODULE Spec2Model ----
(***************************************************************************)
(* A model of losser (src/losser/losser.py): the pattern-path query engine *)
(* query() with its recursive matcher _process_object / _process_list /    *)
(* _process_dict / _process_string, the result normalisation and           *)
(* _flatten, and the row loop of table().                                   *)
(*                                                                         *)
(* Python values are tagged records [t, v]:                                 *)
(*   str   v = the characters (a sequence of one-character strings)         *)
(*   int   v = the digits                                                   *)
(*   none  v = <<>>                                                         *)
(*   list  v = the items                                                    *)
(*   dict  v = the (key, value) pairs in insertion order, key = characters  *)
(* A regular expression is modelled for literal patterns: regex.search is   *)
(* substring search, re.IGNORECASE folds the case of both sides.            *)
(* _flatten is modelled for interpreters that still provide                 *)
(* collections.MutableMapping.                                              *)
(***************************************************************************)
EXTENDS Integers, Sequences, FiniteSets, TLC

\* ------------------------------------------------------------------ bounds
MaxMaxLength == 2
MaxPathLen == 2
MaxRecords == 2
MaxCols == 2

\* ------------------------------------------------------------ value helpers
PyStr(cs) == [t |-> "str", v |-> cs]
PyInt(ds) == [t |-> "int", v |-> ds]
PyNone == [t |-> "none", v |-> <<>>]
PyList(xs) == [t |-> "list", v |-> xs]
PyDict(kvs) == [t |-> "dict", v |-> kvs]
Absent == [t |-> "absent", v |-> <<>>]

RECURSIVE Reverse(_)
Reverse(s) == IF s = <<>> THEN <<>> ELSE Append(Reverse(Tail(s)), Head(s))

Last(s) == s[Len(s)]
Front(s) == SubSeq(s, 1, Len(s) - 1)

Take(s, n) == SubSeq(s, 1, IF n < Len(s) THEN n ELSE Len(s))

Lower(c) ==
    CASE c = "A" -> "a" [] c = "B" -> "b" [] c = "C" -> "c" [] c = "X" -> "x"
      [] c = "Y" -> "y" [] c = "Z" -> "z" [] OTHER -> c
Upper(c) ==
    CASE c = "a" -> "A" [] c = "b" -> "B" [] c = "c" -> "C" [] c = "x" -> "X"
      [] c = "y" -> "Y" [] c = "z" -> "Z" [] OTHER -> c

LowerStr(cs) == [k \in 1..Len(cs) |-> Lower(cs[k])]
UpperStr(cs) == [k \in 1..Len(cs) |-> Upper(cs[k])]

IsSpace(c) == c = " "

RECURSIVE LStrip(_)
LStrip(cs) == IF cs # <<>> /\ IsSpace(Head(cs)) THEN LStrip(Tail(cs)) ELSE cs

RECURSIVE RStrip(_)
RStrip(cs) == IF cs # <<>> /\ IsSpace(Last(cs)) THEN RStrip(Front(cs)) ELSE cs

Strip(cs) == RStrip(LStrip(cs))

\* regex.search(key) for a literal pattern: the pattern occurs somewhere in key
Search(pattern, key, case_sensitive) ==
    LET p == IF case_sensitive THEN pattern ELSE LowerStr(pattern)
        k == IF case_sensitive THEN key ELSE LowerStr(key)
    IN \E i \in 1..(Len(k) + 1) :
          /\ i + Len(p) - 1 <= Len(k)
          /\ SubSeq(k, i, i + Len(p) - 1) = p

\* ------------------------------------------------- string transformations
HyperlinkPrefix == <<"=", "H", "Y", "P", "E", "R", "L", "I", "N", "K", "(", "\"">>
HyperlinkSuffix == <<"\"", ")">>

TruncateFn(n) == [k |-> "truncate", n |-> n]
HyperlinkFn == [k |-> "hyperlink", n |-> 0]
UpperFn == [k |-> "upper", n |-> 0]

\* x[:n] for n >= 0
ApplyTransformation(f, cs) ==
    CASE f.k = "truncate" -> Take(cs, f.n)
      [] f.k = "hyperlink" -> HyperlinkPrefix \o cs \o HyperlinkSuffix
      [] f.k = "upper" -> UpperStr(cs)

RECURSIVE ApplyAll(_, _)
ApplyAll(fs, cs) ==
    IF fs = <<>> THEN cs ELSE ApplyAll(Tail(fs), ApplyTransformation(Head(fs), cs))

\* ---------------------------------------------------------------- matcher
\* A matcher call returns
\*   err  TRUE when pattern_path.pop() raised IndexError somewhere below
\*   out  the returned list or OrderedDict
\*   pp   the contents of the list object passed as pattern_path, afterwards
\*   log  the nodes visited: kind, number of enclosing mappings, path received
Visit(kind, d, path) == [kind |-> kind, depth |-> d, path |-> path]

\* what list.extend(x) and itertools.chain(x) take from x: the items of a
\* list, the keys of a mapping
Iterate(x) ==
    IF x.t = "dict" THEN [k \in 1..Len(x.v) |-> PyStr(x.v[k][1])] ELSE x.v

\* the callee was handed the caller's list itself
PassedSameList(own, callee) == callee

\* the callee was handed a copy (pattern_path[0:], list(pattern_path)), so
\* what it did to its list does not reach the caller's list
PassedCopy(own, callee) == own

_process_string(s, kw) ==
    LET s1 == IF kw.strip THEN Strip(s.v) ELSE s.v
        s2 == IF kw.string_transformations # <<>>
              THEN ApplyAll(kw.string_transformations, s1) ELSE s1
    IN PyList(<<PyStr(s2)>>)

RECURSIVE _process_object(_, _, _, _)
RECURSIVE ListLoop(_, _, _, _, _, _)
RECURSIVE DictLoop(_, _, _, _, _, _, _)

\* for item in list_: result.extend(_process_object(pattern_path[0:], item))
ListLoop(path, items, kw, d, result, log) ==
    IF items = <<>>
    THEN [err |-> FALSE, out |-> PyList(result), pp |-> path, log |-> log]
    ELSE LET r == _process_object(path, Head(items), kw, d)
         IN IF r.err
            THEN [err |-> TRUE, out |-> PyList(<<>>), pp |-> path,
                  log |-> log \o r.log]
            ELSE ListLoop(PassedCopy(path, r.pp), Tail(items), kw, d,
                          result \o Iterate(r.out), log \o r.log)

\* pattern_path.pop() without the test for an empty path
ProcessListAlwaysPops(path, list_, kw, d) ==
    LET r == ListLoop(path, list_.v, kw, d, <<>>, <<Visit("list", d, path)>>)
    IN IF r.err THEN r
       ELSE IF r.pp = <<>> THEN [r EXCEPT !.err = TRUE, !.out = PyList(<<>>)]
       ELSE [r EXCEPT !.pp = Front(r.pp)]

_process_list(path, list_, kw, d) ==
    LET r == ListLoop(path, list_.v, kw, d, <<>>, <<Visit("list", d, path)>>)
    IN IF r.err THEN r
       ELSE [r EXCEPT !.pp = IF r.pp # <<>> THEN Front(r.pp) ELSE r.pp]

\* for key in dict_: if regex.search(key): result_dict[key] = _process_object(...)
DictLoop(pattern, path, pairs, kw, d, result_dict, log) ==
    IF pairs = <<>>
    THEN [err |-> FALSE, out |-> PyDict(result_dict), pp |-> path, log |-> log]
    ELSE LET key == Head(pairs)[1]
             value == Head(pairs)[2]
         IN IF ~Search(pattern, key, kw.case_sensitive)
            THEN DictLoop(pattern, path, Tail(pairs), kw, d, result_dict, log)
            ELSE LET r == _process_object(path, value, kw, d + 1)
                 IN IF r.err
                    THEN [err |-> TRUE, out |-> PyList(<<>>), pp |-> path,
                          log |-> log \o r.log]
                    ELSE DictLoop(pattern, PassedCopy(path, r.pp), Tail(pairs),
                                  kw, d, Append(result_dict, <<key, r.out>>),
                                  log \o r.log)

RECURSIVE Chain(_)
Chain(values) ==
    IF values = <<>> THEN <<>> ELSE Iterate(Head(values)[2]) \o Chain(Tail(values))

_process_dict(path, dict_, kw, d) ==
    IF path = <<>>
    THEN [err |-> TRUE, out |-> PyList(<<>>), pp |-> path,
          log |-> <<Visit("dict", d, path)>>]
    ELSE LET r == DictLoop(Last(path), Front(path), dict_.v, kw, d, <<>>,
                           <<Visit("dict", d, path)>>)
         IN IF r.err \/ kw.return_multiple_columns THEN r
            ELSE [r EXCEPT !.out = PyList(Chain(r.out.v))]

_process_object(path, object_, kw, d) ==
    CASE object_.t = "list" -> _process_list(path, object_, kw, d)
      [] object_.t = "dict" -> _process_dict(path, object_, kw, d)
      [] object_.t = "str" ->
            [err |-> FALSE, out |-> _process_string(object_, kw), pp |-> path,
             log |-> <<Visit("str", d, path)>>]
      [] OTHER ->
            [err |-> FALSE, out |-> PyList(<<object_>>), pp |-> path,
             log |-> <<Visit("scalar", d, path)>>]

\* ------------------------------------------------------------------ query
\* OrderedDict(items): a repeated key keeps its first position and takes the
\* last value
RECURSIVE OrderedDict(_, _)
OrderedDict(items, acc) ==
    IF items = <<>> THEN acc
    ELSE LET k == Head(items)[1]
             v == Head(items)[2]
             hit == {i \in 1..Len(acc) : acc[i][1] = k}
         IN OrderedDict(Tail(items),
                        IF hit = {} THEN Append(acc, <<k, v>>)
                        ELSE [i \in 1..Len(acc) |->
                                 IF i \in hit THEN <<k, v>> ELSE acc[i]])

RECURSIVE FlattenItems(_, _)
FlattenItems(pairs, parent_key) ==
    IF pairs = <<>> THEN <<>>
    ELSE LET k == Head(pairs)[1]
             v == Head(pairs)[2]
             new_key == IF parent_key # <<>> THEN parent_key \o <<"_">> \o k ELSE k
         IN (IF v.t = "dict"
             THEN OrderedDict(FlattenItems(v.v, new_key), <<>>)
             ELSE <<<<new_key, v>>>>)
            \o FlattenItems(Tail(pairs), parent_key)

_flatten(d) == PyDict(OrderedDict(FlattenItems(d.v, <<>>), <<>>))

\* new_result: the items of result in first-occurrence order, no duplicates
RECURSIVE Deduplicate(_, _)
Deduplicate(result, new_result) ==
    IF result = <<>> THEN new_result
    ELSE Deduplicate(Tail(result),
                     IF \E i \in 1..Len(new_result) : new_result[i] = Head(result)
                     THEN new_result ELSE Append(new_result, Head(result)))

Returned(value) == [kind |-> "return", exc |-> "", value |-> value]
Raised(exc) == [kind |-> "raise", exc |-> exc, value |-> PyNone]

\* a one-item list is returned as it is
NormaliseKeepsOneItemList(result, unique, deduplicate) ==
    IF result.v = <<>> THEN Returned(PyNone)
    ELSE IF result.t = "dict" THEN Returned(_flatten(result))
    ELSE IF unique /\ Len(result.v) > 1 THEN Raised("UniqueError")
    ELSE IF deduplicate THEN Returned(PyList(Deduplicate(result.v, <<>>)))
    ELSE Returned(result)

\* the list is deduplicated before it is counted
NormaliseDeduplicatesFirst(result, unique, deduplicate) ==
    LET r == IF deduplicate /\ result.t = "list"
             THEN PyList(Deduplicate(result.v, <<>>)) ELSE result
    IN IF r.v = <<>> THEN Returned(PyNone)
       ELSE IF r.t = "dict" THEN Returned(_flatten(r))
       ELSE IF Len(r.v) = 1 THEN Returned(r.v[1])
       ELSE IF unique THEN Raised("UniqueError")
       ELSE Returned(r)

\* lines 200-218: what query() does with the matcher's result
Normalise(result, unique, deduplicate) ==
    IF result.v = <<>> THEN Returned(PyNone)
    ELSE IF result.t = "dict" THEN Returned(_flatten(result))
    ELSE IF Len(result.v) = 1 THEN Returned(result.v[1])
    ELSE IF unique THEN Raised("UniqueError")
    ELSE IF deduplicate THEN Returned(PyList(Deduplicate(result.v, <<>>)))
    ELSE Returned(result)

\* lines 172-180: the list the matcher is given; a list passed by the caller
\* is appended to in place
Transformations(a) ==
    LET st0 == IF a.string_transformations.t = "none" THEN <<>>
               ELSE a.string_transformations.v
        st1 == IF a.max_length # <<>> /\ a.max_length[1] # 0
               THEN Append(st0, TruncateFn(a.max_length[1])) ELSE st0
    IN IF a.hyperlink THEN Append(st1, HyperlinkFn) ELSE st1

\* a is the keyword arguments of the call.  The answer holds the outcome,
\* the matcher's result before normalisation, the nodes visited, and the
\* caller's objects as they are when the call is over.
query(a) ==
    LET st == Transformations(a)
        listed == IF a.pattern_path.t = "str" THEN <<a.pattern_path.v>>
                  ELSE a.pattern_path.v
        pattern_path == Reverse(listed)
        kw == [string_transformations |-> st, strip |-> a.strip,
               case_sensitive |-> a.case_sensitive,
               return_multiple_columns |-> a.return_multiple_columns]
        m == _process_object(pattern_path, a.dict_, kw, 0)
        outcome == IF m.err THEN Raised("IndexError")
                   ELSE Normalise(m.out, a.unique, a.deduplicate)
    IN [outcome |-> outcome,
        collected |-> m.out,
        log |-> m.log,
        after |-> [pattern_path |->
                       IF a.pattern_path.t = "str" THEN a.pattern_path
                       ELSE [t |-> "list", v |-> PassedCopy(listed, m.pp)],
                   dict_ |-> a.dict_,
                   string_transformations |->
                       IF a.string_transformations.t = "none" THEN PyNone
                       ELSE [t |-> "list", v |-> st]]]

\* ----------------------------------------------------------------- inputs
Patterns == {<<"a">>, <<"B">>, <<>>}

RECURSIVE PathsOfLen(_)
PathsOfLen(n) ==
    IF n = 0 THEN {<<>>}
    ELSE {Append(p, x) : p \in PathsOfLen(n - 1), x \in Patterns}

\* pattern_path as the caller writes it: one regex string, or a list of them
PatternPathArgs ==
    {[t |-> "str", v |-> x] : x \in Patterns}
    \cup {[t |-> "list", v |-> p] : p \in UNION {PathsOfLen(n) : n \in 0..MaxPathLen}}

MaxLengthArgs == {<<>>} \cup {<<n>> : n \in 0..MaxMaxLength}

TransformationArgs == {PyNone, [t |-> "list", v |-> <<>>], [t |-> "list", v |-> <<UpperFn>>]}

RecOne == PyDict(<< <<<<"a">>, PyStr(<<"x", "y", "z">>)>> >>)
RecTwo == PyDict(<< <<<<"a">>, PyStr(<<" ", "x", " ">>)>>, <<<<"a", "b">>, PyStr(<<"x">>)>> >>)
RecOther == PyDict(<< <<<<"c">>, PyStr(<<"x">>)>> >>)
RecEmpty == PyDict(<<>>)
RecList == PyDict(<< <<<<"a">>, PyList(<<PyStr(<<"x">>), PyStr(<<"y">>), PyStr(<<"x">>)>>)>> >>)
RecNested == PyDict(<< <<<<"A">>, PyDict(<< <<<<"b">>, PyInt(<<"1">>)>>, <<<<"B">>, PyStr(<<"x", "y">>)>> >>)>> >>)
RecListOfDicts == PyDict(<< <<<<"a">>, PyList(<<PyDict(<< <<<<"b">>, PyStr(<<"x">>)>> >>),
                                                 PyDict(<< <<<<"b">>, PyStr(<<"y">>)>> >>)>>)>> >>)
RecMixed == PyDict(<< <<<<"a">>, PyList(<<PyList(<<PyStr(<<"x">>)>>),
                                          PyDict(<< <<<<"b">>, PyNone>> >>),
                                          PyStr(<<"y", "x">>)>>)>> >>)
RecCollide == PyDict(<< <<<<"a">>, PyDict(<< <<<<"b">>, PyStr(<<"x">>)>> >>)>>,
                        <<<<"a", "_", "b">>, PyStr(<<"y">>)>> >>)
RecTopList == PyList(<<PyStr(<<"x">>), PyStr(<<"y">>)>>)
RecTopListOfDicts == PyList(<<PyDict(<< <<<<"a">>, PyStr(<<"x">>)>> >>),
                              PyDict(<< <<<<"a">>, PyDict(<< <<<<"b">>, PyStr(<<"y">>)>> >>)>> >>)>>)
RecTopEmptyList == PyList(<<>>)
RecTopStr == PyStr(<<"x", "y", "z">>)
RecTopInt == PyInt(<<"1">>)

Records ==
    {RecOne, RecTwo, RecOther, RecEmpty, RecList, RecNested, RecListOfDicts,
     RecMixed, RecCollide, RecTopList, RecTopListOfDicts, RecTopEmptyList,
     RecTopStr, RecTopInt}

QueryArgs ==
    [pattern_path : PatternPathArgs, dict_ : Records, max_length : MaxLengthArgs,
     strip : BOOLEAN, case_sensitive : BOOLEAN, unique : BOOLEAN,
     deduplicate : BOOLEAN, string_transformations : TransformationArgs,
     hyperlink : BOOLEAN, return_multiple_columns : BOOLEAN]

\* column specifications given to table(); Absent marks a missing key
Column(pattern, pattern_path, st, hyperlink, unique, rmc) ==
    [pattern |-> pattern, pattern_path |-> pattern_path, max_length |-> <<>>,
     strip |-> FALSE, case_sensitive |-> FALSE, unique |-> unique,
     deduplicate |-> FALSE, string_transformations |-> st,
     hyperlink |-> hyperlink, return_multiple_columns |-> rmc]

StrA == [t |-> "str", v |-> <<"a">>]
ListA == [t |-> "list", v |-> <<<<"a">>>>]

TableColumns ==
    {Column(Absent, StrA, PyNone, FALSE, FALSE, FALSE),
     Column(StrA, Absent, PyNone, TRUE, FALSE, FALSE),
     Column(StrA, ListA, PyNone, FALSE, FALSE, FALSE),
     Column(Absent, Absent, PyNone, FALSE, FALSE, FALSE),
     Column(Absent, ListA, [t |-> "list", v |-> <<>>], TRUE, FALSE, FALSE),
     Column(Absent, ListA, [t |-> "list", v |-> <<UpperFn>>], FALSE, TRUE, FALSE),
     Column(Absent, ListA, PyNone, FALSE, FALSE, TRUE)}

TableRecords == {RecOne, RecTwo, RecOther, RecNested}

SeqsUpTo(S, lo, hi) == UNION {[1..n -> S] : n \in lo..hi}

Title(j) == <<"c", ToString(j)>>

\* ------------------------------------------------------------------ state
VARIABLES
    pc,          \* "idle", or where table() is: "normalise", "rows", "done", "failed"
    call,        \* the last call of query(): its arguments and its answer
    dicts,       \* table(): the records
    columns,     \* table(): the (title, column specification) pairs, as they are now
    declared,    \* table(): the column specifications as the caller wrote them
    i,           \* table(): index of the record being processed
    j,           \* table(): index of the column being processed
    row,         \* table(): the row under construction, (key, value) pairs
    table_,      \* table(): the rows built so far
    error,       \* table(): the exception that ended it, "" if none
    queryCalls   \* table(): how many times query() was called

vars == <<pc, call, dicts, columns, declared, i, j, row, table_, error, queryCalls>>

NoCall == [src |-> "none"]

Init ==
    /\ pc = "idle"
    /\ call = NoCall
    /\ dicts = <<>>
    /\ columns = <<>>
    /\ declared = <<>>
    /\ i = 1
    /\ j = 1
    /\ row = <<>>
    /\ table_ = <<>>
    /\ error = ""
    /\ queryCalls = 0

\* user code calls query() directly
QueryCall ==
    /\ pc = "idle"
    /\ \E a \in QueryArgs :
          call' = [src |-> "query", args |-> a, res |-> query(a)]
    /\ pc' = "queried"
    /\ UNCHANGED <<dicts, columns, declared, i, j, row, table_, error, queryCalls>>

\* user code calls table(dicts, columns)
TableCall ==
    /\ pc = "idle"
    /\ \E ds \in SeqsUpTo(TableRecords, 0, MaxRecords),
          cs \in SeqsUpTo(TableColumns, 1, MaxCols) :
          /\ dicts' = ds
          /\ columns' = [k \in 1..Len(cs) |-> <<Title(k), cs[k]>>]
          /\ declared' = [k \in 1..Len(cs) |-> <<Title(k), cs[k]>>]
    /\ pc' = "normalise"
    /\ UNCHANGED <<call, i, j, row, table_, error, queryCalls>>

\* lines 120-126: "pattern" becomes "pattern_path"
NormaliseColumn(column) ==
    IF column.pattern # Absent
    THEN [column EXCEPT !.pattern_path = column.pattern, !.pattern = Absent]
    ELSE column

AssertFails(column) == column.pattern # Absent /\ column.pattern_path # Absent

TableNormalise ==
    /\ pc = "normalise"
    /\ IF \E k \in 1..Len(columns) : AssertFails(columns[k][2])
       THEN /\ pc' = "failed"
            /\ error' = "AssertionError"
            /\ UNCHANGED columns
       ELSE /\ pc' = "rows"
            /\ columns' = [k \in 1..Len(columns) |->
                              <<columns[k][1], NormaliseColumn(columns[k][2])>>]
            /\ UNCHANGED error
    /\ UNCHANGED <<call, dicts, declared, i, j, row, table_, queryCalls>>

\* row[k] = v
SetItem(r, k, v) ==
    IF \E n \in 1..Len(r) : r[n][1] = k
    THEN [n \in 1..Len(r) |-> IF r[n][1] = k THEN <<k, v>> ELSE r[n]]
    ELSE Append(r, <<k, v>>)

RECURSIVE Merge(_, _)
Merge(r, items) ==
    IF items = <<>> THEN r
    ELSE Merge(SetItem(r, Head(items)[1], Head(items)[2]), Tail(items))

\* query(dict_=d, **column_spec)
CellArgs(d, column) ==
    [pattern_path |-> column.pattern_path, dict_ |-> d,
     max_length |-> column.max_length, strip |-> column.strip,
     case_sensitive |-> column.case_sensitive, unique |-> column.unique,
     deduplicate |-> column.deduplicate,
     string_transformations |-> column.string_transformations,
     hyperlink |-> column.hyperlink,
     return_multiple_columns |-> column.return_multiple_columns]

Fail(exc) ==
    /\ pc' = "failed"
    /\ error' = exc
    /\ UNCHANGED <<i, j, row, table_>>

\* lines 130-140: one pass of the inner loop, and table_.append(row) after
\* the last column
TableCell ==
    /\ pc = "rows"
    /\ i <= Len(dicts)
    /\ LET title == columns[j][1]
           column == columns[j][2]
       IN IF column.pattern_path = Absent
          THEN /\ Fail("TypeError")
               /\ UNCHANGED <<call, columns, queryCalls>>
          ELSE LET a == CellArgs(dicts[i], column)
                   res == query(a)
                   value == res.outcome.value
                   newrow == IF column.return_multiple_columns
                             THEN Merge(row, value.v)
                             ELSE SetItem(row, title, value)
               IN /\ call' = [src |-> "table", args |-> a, res |-> res,
                              i |-> i, j |-> j]
                  /\ queryCalls' = queryCalls + 1
                  /\ columns' = [columns EXCEPT ![j][2].string_transformations =
                                    res.after.string_transformations]
                  /\ IF res.outcome.kind = "raise"
                     THEN Fail(res.outcome.exc)
                     ELSE IF column.return_multiple_columns /\ value.t # "dict"
                     THEN Fail("AttributeError")
                     ELSE /\ UNCHANGED <<pc, error>>
                          /\ IF j < Len(columns)
                             THEN /\ j' = j + 1
                                  /\ row' = newrow
                                  /\ UNCHANGED <<i, table_>>
                             ELSE /\ j' = 1
                                  /\ i' = i + 1
                                  /\ row' = <<>>
                                  /\ table_' = Append(table_, newrow)
    /\ UNCHANGED <<dicts, declared>>

\* line 151: return table_
TableReturn ==
    /\ pc = "rows"
    /\ i > Len(dicts)
    /\ pc' = "done"
    /\ UNCHANGED <<call, dicts, columns, declared, i, j, row, table_, error, queryCalls>>

Next == QueryCall \/ TableCall \/ TableNormalise \/ TableCell \/ TableReturn

Spec == Init /\ [][Next]_vars

\* ================================================================= claims
Called == call.src # "none"
Args == call.args
Res == call.res
Completed == Res.outcome.exc # "IndexError"
Range(f) == {f[k] : k \in DOMAIN f}
ListedPath(a) == IF a.pattern_path.t = "str" THEN <<a.pattern_path.v>> ELSE a.pattern_path.v
Get(r, k) == (CHOOSE p \in Range(r) : p[1] = k)[2]

\* ---- C1
\* C1: every value table() stores in a row under a declared column title
\* equals what a fresh query() call returns for that record with the
\* column's declared options, however many cells were processed before.
FreshValue(n, k) ==
    query(CellArgs(dicts[n], NormaliseColumn(declared[k][2]))).outcome.value

C1_TableValueIsFreshQueryValue ==
    \A n \in 1..Len(table_) : \A k \in 1..Len(declared) :
        ~declared[k][2].return_multiple_columns
            => Get(table_[n], declared[k][1]) = FreshValue(n, k)

\* ---- C2
\* C2: after query() returns or raises, the caller's pattern_path, the
\* caller's string_transformations list and the record are what they were
\* before the call.
C2_QueryLeavesArgumentsUnchanged ==
    Called =>
        /\ Res.after.pattern_path = Args.pattern_path
        /\ Res.after.string_transformations = Args.string_transformations
        /\ Res.after.dict_ = Args.dict_

\* ---- C3
\* C3: with return_multiple_columns, unique and deduplicate all false and a
\* path that does not exhaust, query() returns None when the matcher
\* collected no value, the bare value when it collected one, and the list of
\* the collected values in traversal order when it collected two or more.
C3_Case ==
    /\ Called
    /\ ~Args.return_multiple_columns /\ ~Args.unique /\ ~Args.deduplicate
    /\ Completed

C3_CardinalityNormalisation ==
    C3_Case =>
        LET got == Res.collected.v
        IN /\ Len(got) = 0 => Res.outcome = Returned(PyNone)
           /\ Len(got) = 1 => Res.outcome = Returned(got[1])
           /\ Len(got) >= 2 => Res.outcome = Returned(PyList(got))

C3_Witness ==
    /\ C3_Case
    /\ Args.dict_.t = "dict"
    /\ Len(Res.collected.v) = 1
    /\ Res.outcome.kind = "return"
    /\ Res.outcome.value.t = "str"

\* ---- C4
\* C4: with unique true and return_multiple_columns false, whatever the
\* other options, query() raises UniqueError exactly when the matcher
\* returned more than one value (counted before deduplication), returns the
\* bare value when it returned one and None when it returned none.
C4_Case == Called /\ Args.unique /\ ~Args.return_multiple_columns

C4_UniqueOutcome ==
    C4_Case =>
        LET got == Res.collected.v
        IN /\ Res.outcome = Raised("UniqueError") <=> (Completed /\ Len(got) > 1)
           /\ (Completed /\ Len(got) = 1) => Res.outcome = Returned(got[1])
           /\ (Completed /\ Len(got) = 0) => Res.outcome = Returned(PyNone)

C4_Witness ==
    /\ C4_Case
    /\ Args.deduplicate
    /\ Len(Res.collected.v) > 1
    /\ Len(Deduplicate(Res.collected.v, <<>>)) = 1
    /\ Res.outcome = Raised("UniqueError")

\* ---- C5
ExhaustedAt(kinds) ==
    \E k \in 1..Len(Res.log) : Res.log[k].kind \in kinds /\ Res.log[k].path = <<>>

\* C5 as stated: whenever the matcher is at a mapping node or at a sequence
\* node with an exhausted pattern path, query() fails with an error.
C5_ExhaustedAtMappingOrSequenceFails ==
    (Called /\ ExhaustedAt({"dict", "list"})) => Res.outcome.kind = "raise"

\* C5 as amended: query() fails with IndexError exactly when the matcher
\* is at a mapping node with an exhausted pattern path; at a sequence node,
\* as at a string or scalar leaf, an exhausted path is tolerated.
C5_ExhaustedAtMappingFails ==
    Called => (Res.outcome = Raised("IndexError") <=> ExhaustedAt({"dict"}))

C5_Witness ==
    /\ Called
    /\ ExhaustedAt({"list"})
    /\ ~ExhaustedAt({"dict"})
    /\ Res.outcome.kind = "return"
    /\ Res.outcome.value.t = "list"

\* ---- C6
RECURSIVE Keys(_)
Keys(node) ==
    CASE node.t = "dict" ->
            {p[1] : p \in Range(node.v)} \cup UNION {Keys(p[2]) : p \in Range(node.v)}
      [] node.t = "list" -> UNION {Keys(x) : x \in Range(node.v)}
      [] OTHER -> {}

\* C6: with return_multiple_columns true, what query() returns is a flat
\* mapping from key path to matched value(s): not None, not a list or a
\* bare value, no nested mapping, and no key name of the record in the
\* place of a matched value.
C6_MultipleColumnsReturnsFlatMapping ==
    (/\ Called
     /\ Args.return_multiple_columns
     /\ Args.dict_.t \in {"dict", "list"}
     /\ Res.outcome.kind = "return") =>
        LET value == Res.outcome.value
        IN /\ value.t = "dict"
           /\ \A p \in Range(value.v) :
                 /\ p[2].t = "list"
                 /\ \A x \in Range(p[2].v) :
                       x.t = "str" => x.v \notin Keys(Args.dict_)

\* ---- C7
BadColumn(column) == (column.pattern # Absent) <=> (column.pattern_path # Absent)

\* C7: when some column specification has both "pattern" and
\* "pattern_path", or neither, table() never calls query() and never
\* returns a table.
C7_BadColumnFailsBeforeAnyQuery ==
    (\E k \in 1..Len(declared) : BadColumn(declared[k][2])) =>
        /\ queryCalls = 0
        /\ pc # "done"

\* ---- C8
RECURSIVE SourceStrings(_)
SourceStrings(node) ==
    CASE node.t = "dict" -> UNION {SourceStrings(p[2]) : p \in Range(node.v)}
      [] node.t = "list" -> UNION {SourceStrings(x) : x \in Range(node.v)}
      [] node.t = "str" -> {node.v}
      [] OTHER -> {}

ResultStrings(value) ==
    CASE value.t = "str" -> {value.v}
      [] value.t = "list" -> {x.v : x \in {y \in Range(value.v) : y.t = "str"}}
      [] OTHER -> {}

\* C8: with max_length an integer n >= 0, hyperlink false and no custom
\* string_transformations, every string query() returns has at most n
\* characters and is the first n characters of a (stripped, if strip is
\* set) string of the record.  Stated for return_multiple_columns false.
C8_MaxLengthTruncates ==
    (/\ Called
     /\ Args.max_length # <<>>
     /\ ~Args.hyperlink
     /\ Args.string_transformations = PyNone
     /\ ~Args.return_multiple_columns
     /\ Res.outcome.kind = "return") =>
        LET n == Args.max_length[1]
        IN \A s \in ResultStrings(Res.outcome.value) :
              /\ Len(s) <= n
              /\ \E src \in SourceStrings(Args.dict_) :
                    s = Take(IF Args.strip THEN Strip(src) ELSE src, n)

\* ---- C9
\* the matcher as the claim describes it: a sequence is transparent to the
\* path, a mapping consumes its first pattern
RECURSIVE ByDepth(_, _, _)
RECURSIVE ByDepthItems(_, _, _)
RECURSIVE ByDepthPairs(_, _, _)
ByDepthItems(path, items, kw) ==
    IF items = <<>> THEN <<>>
    ELSE ByDepth(path, Head(items), kw) \o ByDepthItems(path, Tail(items), kw)
ByDepthPairs(path, pairs, kw) ==
    IF pairs = <<>> THEN <<>>
    ELSE (IF Search(Head(path), Head(pairs)[1], kw.case_sensitive)
          THEN ByDepth(Tail(path), Head(pairs)[2], kw) ELSE <<>>)
         \o ByDepthPairs(path, Tail(pairs), kw)
ByDepth(path, node, kw) ==
    CASE node.t = "list" -> ByDepthItems(path, node.v, kw)
      [] node.t = "dict" -> ByDepthPairs(path, node.v, kw)
      [] node.t = "str" -> _process_string(node, kw).v
      [] OTHER -> <<node>>

C9_Case == Called /\ ~Args.return_multiple_columns

\* C9: with return_multiple_columns false, every node is matched against
\* the caller's path less one pattern per enclosing mapping, and what the
\* matcher collects is what mappings consuming one pattern and transparent
\* sequences collect: the pop a sequence performs reaches no other node.
C9_PathDependsOnMappingDepthOnly ==
    C9_Case =>
        LET listed == ListedPath(Args)
            kw == [string_transformations |-> Transformations(Args),
                   strip |-> Args.strip, case_sensitive |-> Args.case_sensitive,
                   return_multiple_columns |-> FALSE]
        IN /\ \A k \in 1..Len(Res.log) :
                 LET v == Res.log[k]
                 IN /\ v.depth <= Len(listed)
                    /\ Reverse(v.path) = SubSeq(listed, v.depth + 1, Len(listed))
           /\ Completed => Res.collected.v = ByDepth(listed, Args.dict_, kw)

C9_Witness ==
    /\ C9_Case
    /\ Res.outcome.kind = "return"
    /\ \E k \in 2..Len(Res.log) : \E n \in (k + 1)..Len(Res.log) :
          /\ Res.log[k - 1].kind = "list"
          /\ Res.log[k].kind = "list" /\ Res.log[k].path # <<>>
          /\ Res.log[n].kind = "dict" /\ Res.log[n].depth = Res.log[k].depth
          /\ Res.log[n].path = Res.log[k].path

\* ---- C10
\* C10: with return_multiple_columns false, a list returned by query() has
\* at least two elements.
C10_ReturnedListHasTwoItems ==
    (/\ Called
     /\ ~Args.return_multiple_columns
     /\ Res.outcome.kind = "return"
     /\ Res.outcome.value.t = "list") => Len(Res.outcome.value.v) >= 2

====
